---- MODULE Spec2Model ----
(***************************************************************************)
(* A model of the codelang language server (server/src/server.ts): the     *)
(* document store, the settings cache, the diagnostics, completion and     *)
(* configuration handlers, and the three scanners they call.               *)
(*                                                                         *)
(* A text is a sequence of one-character strings, so that the regular       *)
(* expressions of the source are matched character by character, with the  *)
(* leftmost-first, greedy, backtracking semantics of the JavaScript engine. *)
(***************************************************************************)
EXTENDS Integers, Sequences, FiniteSets, TLC

(***************************************************************************)
(* Characters and character classes of the regular expressions.            *)
(***************************************************************************)
UpperLetters == <<"A", "B", "C", "D", "E", "F", "G", "H", "I", "J", "K", "L", "M",
                  "N", "O", "P", "Q", "R", "S", "T", "U", "V", "W", "X", "Y", "Z">>

LowerLetters == <<"a", "b", "c", "d", "e", "f", "g", "h", "i", "j", "k", "l", "m",
                  "n", "o", "p", "q", "r", "s", "t", "u", "v", "w", "x", "y", "z">>

UpperChars == {UpperLetters[i] : i \in DOMAIN UpperLetters}

LowerChars == {LowerLetters[i] : i \in DOMAIN LowerLetters}

DigitChars == {"0", "1", "2", "3", "4", "5", "6", "7", "8", "9"}

\* [a-zA-Z_]
IdentStart == UpperChars \cup LowerChars \cup {"_"}

\* [a-zA-Z0-9_], which is also \w, the class \b is defined by
IdentChars == IdentStart \cup DigitChars

\* \s, and what String.prototype.trim removes
WhiteSpace == {" ", "\t", "\n", "\r"}

\* what "." does not match
LineTerminators == {"\n", "\r"}

\* the canonical form the /i flag compares characters in
ToUpper(c) ==
    IF c \in LowerChars
    THEN UpperLetters[CHOOSE i \in DOMAIN LowerLetters : LowerLetters[i] = c]
    ELSE c

SetMin(S) == CHOOSE x \in S : \A y \in S : x <= y

SetMax(S) == CHOOSE x \in S : \A y \in S : y <= x

(***************************************************************************)
(* Regular-expression primitives. Positions are 1-based; an end position   *)
(* is exclusive.                                                           *)
(***************************************************************************)
IsWordAt(s, i) == i >= 1 /\ i <= Len(s) /\ s[i] \in IdentChars

\* \b between s[i-1] and s[i]
AtWordBoundary(s, i) == IsWordAt(s, i - 1) # IsWordAt(s, i)

\* the end of the longest run of characters of C that starts at i (a greedy C*)
RECURSIVE RunEnd(_, _, _)
RunEnd(s, i, C) ==
    IF i <= Len(s) /\ s[i] \in C THEN RunEnd(s, i + 1, C) ELSE i

\* the literal lit at position i, compared in canonical form under /i
MatchLit(s, i, lit, ignoreCase) ==
    /\ i >= 1
    /\ i + Len(lit) - 1 <= Len(s)
    /\ \A k \in 1..Len(lit) :
          (IF ignoreCase THEN ToUpper(s[i + k - 1]) ELSE s[i + k - 1]) = lit[k]

\* an alternation of literals at position i: the end of the first alternative
\* that matches, 0 when none does
TypeEnd(s, i, types, ignoreCase) ==
    LET hits == {k \in DOMAIN types : MatchLit(s, i, types[k], ignoreCase)}
    IN  IF hits = {} THEN 0 ELSE i + Len(types[SetMin(hits)])

\* the position of the first sep at or after i, Len(s) + 1 when there is none
RECURSIVE IndexOf(_, _, _)
IndexOf(s, sep, i) ==
    IF i > Len(s) \/ s[i] = sep THEN i ELSE IndexOf(s, sep, i + 1)

\* String.prototype.split on a one-character separator
RECURSIVE SplitFrom(_, _, _)
SplitFrom(s, sep, i) ==
    LET e == IndexOf(s, sep, i)
    IN  IF e > Len(s) THEN <<SubSeq(s, i, Len(s))>>
        ELSE <<SubSeq(s, i, e - 1)>> \o SplitFrom(s, sep, e + 1)

Split(s, sep) == SplitFrom(s, sep, 1)

\* String.prototype.trim
Trim(s) ==
    LET keep == {i \in 1..Len(s) : s[i] \notin WhiteSpace}
    IN  IF keep = {} THEN <<>> ELSE SubSeq(s, SetMin(keep), SetMax(keep))

(***************************************************************************)
(* Keywords of the language, as they are spelt in the source.              *)
(***************************************************************************)
KwFN == <<"F", "N">>

KwEndFn == <<"E", "N", "D", " ", "F", "N">>

KwSTRING == <<"S", "T", "R", "I", "N", "G">>

KwINT == <<"I", "N", "T">>

KwFLOAT == <<"F", "L", "O", "A", "T">>

KwCHAR == <<"C", "H", "A", "R">>

KwBOOL == <<"B", "O", "O", "L">>

\* (STRING|INT|FLOAT|CHAR|BOOL), in the order of the alternation
FunctionTypes == <<KwSTRING, KwINT, KwFLOAT, KwCHAR, KwBOOL>>

\* (STRING|INT|FLOAT|CHAR)
\* VariableTypes with BOOL among the types
VariableTypes_WithBool == <<KwSTRING, KwINT, KwFLOAT, KwCHAR, KwBOOL>>

VariableTypes == <<KwSTRING, KwINT, KwFLOAT, KwCHAR>>

(***************************************************************************)
(* extractFunctionDeclarations                                             *)
(***************************************************************************)
\* ([a-zA-Z_][a-zA-Z0-9_]*)\s*\((.*)\) at position q: the identifier is the
\* longest run (a shorter one is followed by an identifier character, never
\* by \s or "("), and .* runs to the last ")" before a line terminator
HeaderTail(s, q) ==
    LET r == RunEnd(s, q, IdentChars)
        o == RunEnd(s, r, WhiteSpace)
        e == RunEnd(s, o + 1, {s[k] : k \in 1..Len(s)} \ LineTerminators)
        closes == {k \in (o + 1)..(e - 1) : s[k] = ")"}
        ok == /\ q <= Len(s)
              /\ s[q] \in IdentStart
              /\ o <= Len(s)
              /\ s[o] = "("
              /\ closes # {}
    IN  IF ok
        THEN [ok |-> TRUE, name |-> SubSeq(s, q, r - 1),
              paramsString |-> SubSeq(s, o + 1, SetMax(closes) - 1)]
        ELSE [ok |-> FALSE, name |-> <<>>, paramsString |-> <<>>]

\* /\bFN\s+(?:STRING|INT|FLOAT|CHAR|BOOL)?\s*([a-zA-Z_][a-zA-Z0-9_]*)\s*\((.*)\)/i
\* tried at position i: the optional type keyword is tried first, and is given
\* up only when the rest fails after it
HeaderAt(s, i) ==
    LET p == RunEnd(s, i + 2, WhiteSpace)
        t == TypeEnd(s, p, FunctionTypes, TRUE)
        withType == HeaderTail(s, RunEnd(s, t, WhiteSpace))
    IN  IF ~(AtWordBoundary(s, i) /\ MatchLit(s, i, KwFN, TRUE) /\ p > i + 2)
        THEN [ok |-> FALSE, name |-> <<>>, paramsString |-> <<>>]
        ELSE IF t # 0 /\ withType.ok THEN withType
        ELSE HeaderTail(s, p)

\* line.match(header): the match at the leftmost position that has one
FunctionStartMatch(line) ==
    LET starts == {i \in 1..Len(line) : HeaderAt(line, i).ok}
    IN  IF starts = {}
        THEN [ok |-> FALSE, name |-> <<>>, paramsString |-> <<>>]
        ELSE HeaderAt(line, SetMin(starts))

\* /\b([a-zA-Z_][a-zA-Z0-9_]*)\s*:\s*(STRING|INT|FLOAT|CHAR|BOOL)/ tried at
\* position i: the end of the match, 0 when there is none
ParamMatchEnd(s, i) ==
    LET r == RunEnd(s, i, IdentChars)
        c == RunEnd(s, r, WhiteSpace)
        d == RunEnd(s, c + 1, WhiteSpace)
    IN  IF /\ AtWordBoundary(s, i)
           /\ i <= Len(s)
           /\ s[i] \in IdentStart
           /\ c <= Len(s)
           /\ s[c] = ":"
        THEN TypeEnd(s, d, FunctionTypes, FALSE)
        ELSE 0

\* line.match(/.../g): the matched strings, leftmost first, not overlapping
RECURSIVE ParamMatches(_, _)
ParamMatches(line, i) ==
    IF i > Len(line) THEN <<>>
    ELSE LET e == ParamMatchEnd(line, i)
         IN  IF e = 0 THEN ParamMatches(line, i + 1)
             ELSE <<SubSeq(line, i, e - 1)>> \o ParamMatches(line, e)

\* PushParams with each entry put at the front of the list
RECURSIVE PushParams_AtFront(_, _, _)
PushParams_AtFront(functionParams, matches, k) ==
    IF k > Len(matches) THEN functionParams
    ELSE LET parts == Split(matches[k], ":")
         IN  PushParams_AtFront(
                 <<Trim(parts[2]) \o <<" ">> \o Trim(parts[1])>> \o functionParams,
                 matches, k + 1)

\* the forEach over the matches of one body line: `${paramType} ${paramName}`
\* is pushed for a match that splits in two on ":"
RECURSIVE PushParams(_, _, _)
PushParams(functionParams, matches, k) ==
    IF k > Len(matches) THEN functionParams
    ELSE LET parts == Split(matches[k], ":")
         IN  IF Len(parts) = 2
             THEN PushParams(
                    Append(functionParams, Trim(parts[2]) \o <<" ">> \o Trim(parts[1])),
                    matches, k + 1)
             ELSE PushParams(functionParams, matches, k + 1)

\* HeaderParams with the header's text split on ":" instead of ","
HeaderParams_SplitOnColon(paramsString) ==
    LET parts == Split(paramsString, ":")
    IN  [k \in 1..Len(parts) |-> Trim(parts[k])]

\* paramsString.split(',').map((param) => param.trim())
HeaderParams(paramsString) ==
    LET parts == Split(paramsString, ",")
    IN  [k \in 1..Len(parts) |-> Trim(parts[k])]

\* the locals of extractFunctionDeclarations as they are declared
FreshLocals ==
    [functionDeclarations |-> <<>>, functionName |-> <<>>,
     functionParams |-> <<>>, isInFunction |-> FALSE]

\* FunctionScanStart with the scanner's flags kept at module level: a call
\* starts from what the previous one left
FunctionScanStart_SharedFlags(prev) ==
    [FreshLocals EXCEPT !.functionName = prev.functionName,
                        !.functionParams = prev.functionParams,
                        !.isInFunction = prev.isInFunction]

\* FunctionScanStart with isInFunction and functionName kept at module
\* level: a call starts inside the function the previous call was left in
FunctionScanStart_SharedInFunction(prev) ==
    [FreshLocals EXCEPT !.functionName = prev.functionName,
                        !.isInFunction = prev.isInFunction]

\* the locals at the start of a call: they are declared in the function, so
\* what the previous call left in them (prev) is not read
FunctionScanStart(prev) == FreshLocals

\* FunctionScanLine with the header pattern tried inside a function too: a
\* header-shaped line starts the function again under its own name
FunctionScanLine_HeaderInside(st, line) ==
    LET m == FunctionStartMatch(line)
    IN  IF st.isInFunction /\ Trim(line) = KwEndFn
        THEN [functionDeclarations |->
                  Append(st.functionDeclarations,
                         [name |-> st.functionName, params |-> st.functionParams]),
              functionName |-> <<>>, functionParams |-> <<>>, isInFunction |-> FALSE]
        ELSE IF m.ok
        THEN [st EXCEPT !.functionName = m.name,
                        !.functionParams = HeaderParams(m.paramsString),
                        !.isInFunction = TRUE]
        ELSE IF st.isInFunction
        THEN [st EXCEPT !.functionParams = PushParams(@, ParamMatches(line, 1), 1)]
        ELSE st

\* the body of lines.forEach for one line
FunctionScanLine(st, line) ==
    IF st.isInFunction
    THEN IF Trim(line) = KwEndFn
         THEN [functionDeclarations |->
                   Append(st.functionDeclarations,
                          [name |-> st.functionName, params |-> st.functionParams]),
               functionName |-> <<>>, functionParams |-> <<>>, isInFunction |-> FALSE]
         ELSE [st EXCEPT !.functionParams = PushParams(@, ParamMatches(line, 1), 1)]
    ELSE LET m == FunctionStartMatch(line)
         IN  IF m.ok
             THEN [st EXCEPT !.functionName = m.name,
                             !.functionParams = HeaderParams(m.paramsString),
                             !.isInFunction = TRUE]
             ELSE st

RECURSIVE FunctionScanLines(_, _, _)
FunctionScanLines(st, lines, k) ==
    IF k > Len(lines) THEN st
    ELSE FunctionScanLines(FunctionScanLine(st, lines[k]), lines, k + 1)

\* FunctionScan with the function still open at the end of the document
\* emitted
FunctionScan_FlushAtEnd(prev, text) ==
    LET st == FunctionScanLines(FunctionScanStart(prev), Split(text, "\n"), 1)
    IN  IF st.isInFunction
        THEN [st EXCEPT !.functionDeclarations =
                  Append(@, [name |-> st.functionName, params |-> st.functionParams])]
        ELSE st

\* the locals when the forEach of extractFunctionDeclarations has ended
FunctionScan(prev, text) ==
    FunctionScanLines(FunctionScanStart(prev), Split(text, "\n"), 1)

extractFunctionDeclarations(text) ==
    FunctionScan(FreshLocals, text).functionDeclarations

(***************************************************************************)
(* extractVariableDeclarations                                             *)
(***************************************************************************)
\* (?<!\bFN\s+) at position i: no "FN" at a word boundary followed by
\* whitespace only, and some, up to position i
PrecededByFN(s, i) ==
    \E j \in 1..(i - 3) :
        /\ AtWordBoundary(s, j)
        /\ MatchLit(s, j, KwFN, FALSE)
        /\ \A k \in (j + 2)..(i - 1) : s[k] \in WhiteSpace

\* VariableAt without the lookbehind
VariableAt_NoLookbehind(s, i) ==
    LET t == TypeEnd(s, i, VariableTypes, FALSE)
        q == RunEnd(s, t, WhiteSpace)
        r == RunEnd(s, q, IdentChars)
    IN  IF t # 0 /\ q > t /\ q <= Len(s) /\ s[q] \in IdentStart
        THEN [ok |-> TRUE, index |-> i, end |-> r,
              type |-> SubSeq(s, i, t - 1), name |-> SubSeq(s, q, r - 1)]
        ELSE [ok |-> FALSE, index |-> i, end |-> i, type |-> <<>>, name |-> <<>>]

\* /(?<!\bFN\s+)(STRING|INT|FLOAT|CHAR)\s+([a-zA-Z_][a-zA-Z0-9_]*)\b/ tried
\* at position i
VariableAt(s, i) ==
    LET t == TypeEnd(s, i, VariableTypes, FALSE)
        q == RunEnd(s, t, WhiteSpace)
        r == RunEnd(s, q, IdentChars)
    IN  IF /\ t # 0
           /\ ~PrecededByFN(s, i)
           /\ q > t
           /\ q <= Len(s)
           /\ s[q] \in IdentStart
        THEN [ok |-> TRUE, index |-> i, end |-> r,
              type |-> SubSeq(s, i, t - 1), name |-> SubSeq(s, q, r - 1)]
        ELSE [ok |-> FALSE, index |-> i, end |-> i, type |-> <<>>, name |-> <<>>]

\* the while loop over paramRegex.exec(line), from lastIndex i
RECURSIVE VariableMatches(_, _)
VariableMatches(line, i) ==
    IF i > Len(line) THEN <<>>
    ELSE LET m == VariableAt(line, i)
         IN  IF m.ok THEN <<m>> \o VariableMatches(line, m.end)
             ELSE VariableMatches(line, i + 1)

RECURSIVE VariableScanLines(_, _)
VariableScanLines(lines, k) ==
    IF k > Len(lines) THEN <<>>
    ELSE LET ms == VariableMatches(lines[k], 1)
         IN  [j \in 1..Len(ms) |-> [name |-> ms[j].name, containerName |-> ms[j].type]]
             \o VariableScanLines(lines, k + 1)

extractVariableDeclarations(text) == VariableScanLines(Split(text, "\n"), 1)

(***************************************************************************)
(* validateTextDocument                                                    *)
(***************************************************************************)
\* a line break ends at position k: "\n", or a "\r" that no "\n" follows
IsLineBreakEnd(text, k) ==
    \/ text[k] = "\n"
    \/ text[k] = "\r" /\ ~(k < Len(text) /\ text[k + 1] = "\n")

\* textDocument.positionAt(offset), offset counted from 0
positionAt(text, offset) ==
    LET starts == {0} \cup {k \in 1..Len(text) : k <= offset /\ IsLineBreakEnd(text, k)}
    IN  [line |-> Cardinality(starts) - 1, character |-> offset - SetMax(starts)]

\* /\b[A-Z]{2,}\b/ tried at position i: the end of the match, 0 when there is
\* none (a run cut short ends between two word characters, never at \b)
UppercaseMatchEnd(text, i) ==
    LET r == RunEnd(text, i, UpperChars)
    IN  IF AtWordBoundary(text, i) /\ r - i >= 2 /\ AtWordBoundary(text, r)
        THEN r ELSE 0

\* pattern.exec(text) from lastIndex i: the position of the next match, 0
\* when there is none
RECURSIVE UppercaseExec(_, _)
UppercaseExec(text, i) ==
    IF i > Len(text) THEN 0
    ELSE IF UppercaseMatchEnd(text, i) # 0 THEN i
    ELSE UppercaseExec(text, i + 1)

Warning == "Warning"

MsgAllUppercase ==
    <<" ", "i", "s", " ", "a", "l", "l", " ", "u", "p", "p", "e", "r", "c", "a", "s", "e", ".">>

\* the Diagnostic object the loop body builds for the match at i (m.index is
\* i - 1), with the related information when the client supports it
MakeDiagnostic(text, uri, i, related) ==
    LET e == UppercaseMatchEnd(text, i)
        range == [start |-> positionAt(text, i - 1), end |-> positionAt(text, e - 1)]
    IN  [severity |-> Warning,
         range |-> range,
         message |-> SubSeq(text, i, e - 1) \o MsgAllUppercase,
         source |-> "ex",
         relatedInformation |->
             IF related
             THEN <<[location |-> [uri |-> uri, range |-> range],
                     message |-> "Spelling matters"],
                    [location |-> [uri |-> uri, range |-> range],
                     message |-> "Particularly for names"]>>
             ELSE <<>>]

\* one pass of the loop body: problems is counted, the diagnostic is built,
\* and the body ends without adding it to diagnostics
ValidateBody(acc, diagnostic) ==
    [problems |-> acc.problems + 1, diagnostics |-> acc.diagnostics]

\* the value getConfiguration resolves to when the client has no settings
\* for the section: null
NullSettings == [null |-> TRUE]

\* while ((m = pattern.exec(text)) && problems < settings.maxNumberOfProblems)
\* throws a TypeError: settings is null and a match makes the right operand
\* be evaluated
ValidateRaises(text, settings) ==
    settings = NullSettings /\ UppercaseExec(text, 1) # 0

\* while ((m = pattern.exec(text)) && problems < settings.maxNumberOfProblems)
RECURSIVE ValidateLoop(_, _, _, _, _, _)
ValidateLoop(acc, text, uri, lastIndex, settings, related) ==
    LET i == UppercaseExec(text, lastIndex)
    IN  IF i = 0 THEN acc
        ELSE IF ~(acc.problems < settings.maxNumberOfProblems) THEN acc
        ELSE ValidateLoop(ValidateBody(acc, MakeDiagnostic(text, uri, i, related)),
                          text, uri, UppercaseMatchEnd(text, i),
                          settings, related)

\* validateTextDocument with every diagnostic pushed and the pattern matched
\* under /i: one diagnostic for each word of two letters or more, up to the cap
validateTextDocument_PushIgnoreCase(text, uri, settings, related) ==
    LET letters == UpperChars \cup LowerChars
        starts == {i \in 1..Len(text) :
                      /\ AtWordBoundary(text, i)
                      /\ RunEnd(text, i, letters) - i >= 2
                      /\ AtWordBoundary(text, RunEnd(text, i, letters))}
        n == IF Cardinality(starts) < settings.maxNumberOfProblems
             THEN Cardinality(starts) ELSE settings.maxNumberOfProblems
    IN  [k \in 1..n |-> [severity |-> Warning, source |-> "ex"]]

\* validateTextDocument after its await: the diagnostics it returns, when
\* it does not throw
validateTextDocument(text, uri, settings, related) ==
    ValidateLoop([problems |-> 0, diagnostics |-> <<>>], text, uri, 1,
                 settings, related).diagnostics

(***************************************************************************)
(* onCompletion                                                            *)
(***************************************************************************)
Keyword == "Keyword"

Variable == "Variable"

Function == "Function"

KeywordItem(label) == [label |-> label, kind |-> Keyword]

\* the literal array completionItems starts as
FixedItems ==
    <<KeywordItem(<<"B", "E", "G", "I", "N">>),
      KeywordItem(<<"E", "N", "D">>),
      KeywordItem(<<"I", "F">>),
      KeywordItem(<<"E", "L", "S", "E">>),
      KeywordItem(<<"W", "H", "I", "L", "E">>),
      KeywordItem(KwFN),
      KeywordItem(KwSTRING),
      KeywordItem(KwCHAR),
      KeywordItem(KwINT),
      KeywordItem(KwFLOAT),
      KeywordItem(KwBOOL),
      KeywordItem(<<"\"", "T", "R", "U", "E", "\"">>),
      KeywordItem(<<"\"", "F", "A", "L", "S", "E", "\"">>),
      KeywordItem(<<"R", "E", "T", "U", "R", "N">>),
      [label |-> <<"s", "c", "a", "n", "S", "t", "r", "i", "n", "g">>, kind |-> Function]>>

\* VariableItems with one item for each name: a declaration whose name an
\* earlier one has is skipped
VariableItems_OnePerName(variableDeclarations) ==
    LET first == SelectSeq([k \in 1..Len(variableDeclarations) |-> k],
                           LAMBDA k : \A j \in 1..(k - 1) :
                               variableDeclarations[j].name # variableDeclarations[k].name)
    IN  [k \in 1..Len(first) |->
            [label |-> variableDeclarations[first[k]].name, kind |-> Variable,
             detail |-> variableDeclarations[first[k]].containerName]]

VariableItems(variableDeclarations) ==
    [k \in 1..Len(variableDeclarations) |->
        [label |-> variableDeclarations[k].name, kind |-> Variable,
         detail |-> variableDeclarations[k].containerName]]

FunctionItems(functionDeclarations) ==
    [k \in 1..Len(functionDeclarations) |->
        [label |-> functionDeclarations[k].name, kind |-> Function]]

\* CompletionItems with the functions pushed before the variables
CompletionItems_FunctionsFirst(variableDeclarations, functionDeclarations) ==
    FixedItems \o FunctionItems(functionDeclarations) \o VariableItems(variableDeclarations)

\* the array onCompletion returns for a known document
CompletionItems(variableDeclarations, functionDeclarations) ==
    FixedItems \o VariableItems(variableDeclarations) \o FunctionItems(functionDeclarations)

\* what onCompletion returns for the request (uri, position) on the documents
\* docs; the locals scan starts from are those FunctionScanStart gives
onCompletion(docs, uri, position, prev) ==
    IF uri \notin DOMAIN docs THEN <<>>
    ELSE CompletionItems(extractVariableDeclarations(docs[uri]),
                         FunctionScan(prev, docs[uri]).functionDeclarations)

(***************************************************************************)
(* The server: its state and its handlers.                                 *)
(***************************************************************************)
VARIABLES
    initialized,        \* onInitialize has run
    hasConfigurationCapability,
    hasDiagnosticRelatedInformationCapability,
    documents,          \* the TextDocuments store: uri -> text
    globalSettings,
    documentSettings,   \* the cache: uri -> the promise of its settings
    runs,               \* validateTextDocument calls suspended at their await
    scanLocals,         \* the locals the last extractFunctionDeclarations left
    response            \* the last response sent to the client

vars == <<initialized, hasConfigurationCapability,
          hasDiagnosticRelatedInformationCapability, documents, globalSettings,
          documentSettings, runs, scanLocals, response>>

URIs == {"u1", "u2"}

\* cursor positions a completion request carries
Positions == {[line |-> 0, character |-> 0], [line |-> 1, character |-> 2]}

DefaultMaxNumberOfProblems == 1000

defaultSettings == [maxNumberOfProblems |-> DefaultMaxNumberOfProblems]

\* the most validateTextDocument calls suspended at one time
MaxRuns == 2

\* a promise of settings: pending, under the name of the
\* workspace/configuration request that will settle it, or settled
Pending(request) == [settled |-> FALSE, request |-> request]

Settled(settings) == [settled |-> TRUE, settings |-> settings]

\* names for the requests in flight: each is awaited by a suspended call
RequestIds == 1..MaxRuns

NoResponse == [handler |-> "none"]

\* no settings object: an unknown document's report used none, and a
\* configuration change may carry none
NoSettings == [undefined |-> TRUE]

\* a Map with key k set to v, and with key k deleted
MapSet(m, k, v) == [x \in DOMAIN m \cup {k} |-> IF x = k THEN v ELSE m[x]]

MapDelete(m, k) == [x \in DOMAIN m \ {k} |-> m[x]]

EmptyMap == [x \in {} |-> 0]

Init ==
    /\ initialized = FALSE
    /\ hasConfigurationCapability = FALSE
    /\ hasDiagnosticRelatedInformationCapability = FALSE
    /\ documents = EmptyMap
    /\ globalSettings = defaultSettings
    /\ documentSettings = EmptyMap
    /\ runs = <<>>
    /\ scanLocals = FreshLocals
    /\ response = NoResponse

\* connection.onInitialize: the capability flags are read off the client's
\* capabilities
Initialize(configuration, relatedInformation) ==
    /\ ~initialized
    /\ initialized' = TRUE
    /\ hasConfigurationCapability' = configuration
    /\ hasDiagnosticRelatedInformationCapability' = relatedInformation
    /\ UNCHANGED <<documents, globalSettings, documentSettings, runs, scanLocals,
                   response>>

\* the report a diagnostics pull is answered with; scanned and settings are
\* the text and the settings the run used
FullReport(uri, items, text, settings) ==
    [handler |-> "diagnostics", uri |-> uri, kind |-> "full", items |-> items,
     scanned |-> text, settings |-> settings]

\* what the host gets when validateTextDocument throws: the diagnostics
\* handler's promise rejects and the request is answered with an error;
\* onDidChangeContent does not await the call, and the rejection is unhandled.
\* Whether the process goes on after an unhandled rejection is the runtime's
\* choice; the server is taken to go on, a stopped one taking no more steps
Raised(uri, text, settings, pull) ==
    [handler |-> "raised", uri |-> uri,
     from |-> IF pull THEN "diagnostics" ELSE "onDidChangeContent",
     scanned |-> text, settings |-> settings]

\* Validated with the cap read from globalSettings when the scan starts,
\* whatever the awaited lookup resolved to
Validated_ReadsGlobalSettings(uri, text, settings, pull) ==
    IF pull
    THEN response' = FullReport(uri,
                        validateTextDocument(text, uri, globalSettings,
                            hasDiagnosticRelatedInformationCapability),
                        text, globalSettings)
    ELSE UNCHANGED response

\* validateTextDocument from its await on: the scan of text under settings;
\* the diagnostics handler sends the result, onDidChangeContent drops it
Validated(uri, text, settings, pull) ==
    IF ValidateRaises(text, settings)
    THEN response' = Raised(uri, text, settings, pull)
    ELSE IF pull
    THEN response' = FullReport(uri,
                        validateTextDocument(text, uri, settings,
                            hasDiagnosticRelatedInformationCapability),
                        text, settings)
    ELSE UNCHANGED response

\* a call suspended on the pending request; closed and text are set when its
\* document leaves the store, and it holds the document object alone
Suspended(uri, request, pull) ==
    [uri |-> uri, request |-> request, pull |-> pull, closed |-> FALSE, text |-> <<>>]

\* textDocument.getText() as the suspended call r will read it when it goes
\* on, the store holding docs: the store updates a document object in place,
\* so the call reads the text the store holds by then, or the last text of
\* a document that was closed
RunText(r, docs) == IF r.closed THEN r.text ELSE docs[r.uri]

\* the requests some suspended call awaits
InFlight == {runs[k].request : k \in DOMAIN runs}

\* connection.workspace.getConfiguration: a new request
NewRequest == SetMin(RequestIds \ InFlight)

\* validateTextDocument(document) called for the document uri holding text:
\* getDocumentSettings, then the await. A settled promise is awaited within
\* the handler's turn; a pending one suspends the call
StartValidate(uri, text, pull) ==
    IF ~hasConfigurationCapability
    THEN /\ Validated(uri, text, globalSettings, pull)
         /\ UNCHANGED <<documentSettings, runs>>
    ELSE IF uri \in DOMAIN documentSettings
    THEN IF documentSettings[uri].settled
         THEN /\ Validated(uri, text, documentSettings[uri].settings, pull)
              /\ UNCHANGED <<documentSettings, runs>>
         ELSE /\ Len(runs) < MaxRuns
              /\ runs' = Append(runs, Suspended(uri, documentSettings[uri].request, pull))
              /\ UNCHANGED <<documentSettings, response>>
    ELSE /\ Len(runs) < MaxRuns
         /\ documentSettings' = MapSet(documentSettings, uri, Pending(NewRequest))
         /\ runs' = Append(runs, Suspended(uri, NewRequest, pull))
         /\ UNCHANGED response

\* textDocument/didOpen: the store adds the document and fires
\* onDidChangeContent
DidOpen(uri, text) ==
    /\ initialized
    /\ uri \notin DOMAIN documents
    /\ documents' = MapSet(documents, uri, text)
    /\ StartValidate(uri, text, FALSE)
    /\ UNCHANGED <<initialized, hasConfigurationCapability,
                   hasDiagnosticRelatedInformationCapability, globalSettings,
                   scanLocals>>

\* textDocument/didChange: the store updates the document in place and fires
\* onDidChangeContent
DidChangeContent(uri, text) ==
    /\ initialized
    /\ uri \in DOMAIN documents
    /\ documents' = MapSet(documents, uri, text)
    /\ StartValidate(uri, text, FALSE)
    /\ UNCHANGED <<initialized, hasConfigurationCapability,
                   hasDiagnosticRelatedInformationCapability, globalSettings,
                   scanLocals>>

\* DidClose with no onDidClose handler: the cached settings of the closed
\* document stay
DidClose_KeepsSettings(uri) ==
    /\ initialized
    /\ uri \in DOMAIN documents
    /\ documents' = MapDelete(documents, uri)
    /\ runs' = [k \in 1..Len(runs) |->
                  IF runs[k].uri = uri /\ ~runs[k].closed
                  THEN [runs[k] EXCEPT !.closed = TRUE, !.text = documents[uri]]
                  ELSE runs[k]]
    /\ UNCHANGED <<initialized, hasConfigurationCapability,
                   hasDiagnosticRelatedInformationCapability, globalSettings,
                   documentSettings, scanLocals, response>>

\* textDocument/didClose: the store drops the document, whose object the
\* suspended calls still hold, and onDidClose drops its cached settings
DidClose(uri) ==
    /\ initialized
    /\ uri \in DOMAIN documents
    /\ documents' = MapDelete(documents, uri)
    /\ documentSettings' = MapDelete(documentSettings, uri)
    /\ runs' = [k \in 1..Len(runs) |->
                  IF runs[k].uri = uri /\ ~runs[k].closed
                  THEN [runs[k] EXCEPT !.closed = TRUE, !.text = documents[uri]]
                  ELSE runs[k]]
    /\ UNCHANGED <<initialized, hasConfigurationCapability,
                   hasDiagnosticRelatedInformationCapability, globalSettings,
                   scanLocals, response>>

\* DiagnosticsPull without the test for an unknown document: the validation
\* is started whatever the store holds
DiagnosticsPull_AlwaysValidate(uri) ==
    /\ initialized
    /\ StartValidate(uri, IF uri \in DOMAIN documents THEN documents[uri] ELSE <<>>, TRUE)
    /\ UNCHANGED <<initialized, hasConfigurationCapability,
                   hasDiagnosticRelatedInformationCapability, documents,
                   globalSettings, scanLocals>>

\* connection.languages.diagnostics.on
DiagnosticsPull(uri) ==
    /\ initialized
    /\ IF uri \in DOMAIN documents
       THEN StartValidate(uri, documents[uri], TRUE)
       ELSE /\ response' = FullReport(uri, <<>>, <<>>, NoSettings)
            /\ UNCHANGED <<documentSettings, runs>>
    /\ UNCHANGED <<initialized, hasConfigurationCapability,
                   hasDiagnosticRelatedInformationCapability, documents,
                   globalSettings, scanLocals>>

\* the client's answer to the workspace/configuration request: the promise
\* settles, in the cache too when it is still there, and every call awaiting
\* it goes on, in the order they awaited, on the text its document object
\* holds by then; the host is left with what the last of them hands it
ConfigurationResponse(request, settings) ==
    /\ request \in InFlight
    /\ documentSettings' =
          [u \in DOMAIN documentSettings |->
              IF documentSettings[u] = Pending(request)
              THEN Settled(settings) ELSE documentSettings[u]]
    /\ LET TextOf(r) == RunText(r, documents)
           outs == SelectSeq(runs, LAMBDA r :
                       /\ r.request = request
                       /\ (r.pull \/ ValidateRaises(TextOf(r), settings)))
           last == outs[Len(outs)]
       IN  /\ runs' = SelectSeq(runs, LAMBDA r : r.request # request)
           /\ IF outs = <<>> THEN UNCHANGED response
              ELSE Validated(last.uri, TextOf(last), settings, last.pull)
    /\ UNCHANGED <<initialized, hasConfigurationCapability,
                   hasDiagnosticRelatedInformationCapability, documents,
                   globalSettings, scanLocals>>

\* connection.onDidChangeConfiguration; settings is
\* change.settings.languageServerExample, NoSettings when the client sends none
DidChangeConfiguration(settings) ==
    /\ initialized
    /\ IF hasConfigurationCapability
       THEN /\ documentSettings' = EmptyMap
            /\ UNCHANGED globalSettings
       ELSE /\ globalSettings' = IF settings = NoSettings THEN defaultSettings ELSE settings
            /\ UNCHANGED documentSettings
    /\ UNCHANGED <<initialized, hasConfigurationCapability,
                   hasDiagnosticRelatedInformationCapability, documents,
                   runs, scanLocals, response>>

\* connection.onCompletion
Completion(uri, position) ==
    /\ initialized
    /\ response' = [handler |-> "completion", uri |-> uri,
                    items |-> onCompletion(documents, uri, position, scanLocals),
                    scanned |-> IF uri \in DOMAIN documents THEN documents[uri] ELSE <<>>]
    /\ scanLocals' = IF uri \in DOMAIN documents
                     THEN FunctionScan(scanLocals, documents[uri])
                     ELSE scanLocals
    /\ UNCHANGED <<initialized, hasConfigurationCapability,
                   hasDiagnosticRelatedInformationCapability, documents,
                   globalSettings, documentSettings, runs>>

(***************************************************************************)
(* The texts the documents are drawn from: lines of the language, joined   *)
(* by "\n".                                                                *)
(***************************************************************************)
\* "FN STRING greet(name: STRING) END FN"
LineGreet ==
    <<"F", "N", " ", "S", "T", "R", "I", "N", "G", " ", "g", "r", "e", "e", "t",
      "(", "n", "a", "m", "e", ":", " ", "S", "T", "R", "I", "N", "G", ")", " ",
      "E", "N", "D", " ", "F", "N">>

\* "FN STRING greet(name: STRING)"
LineGreetHeader ==
    <<"F", "N", " ", "S", "T", "R", "I", "N", "G", " ", "g", "r", "e", "e", "t",
      "(", "n", "a", "m", "e", ":", " ", "S", "T", "R", "I", "N", "G", ")">>

\* "END FN"
LineEndFn ==
    <<"E", "N", "D", " ", "F", "N">>

\* "FN foo(a) "
LineFoo ==
    <<"F", "N", " ", "f", "o", "o", "(", "a", ")", " ">>

\* " INT x"
LineIntX ==
    <<" ", "I", "N", "T", " ", "x">>

\* "FN INT getX() END FN"
LineGetX ==
    <<"F", "N", " ", "I", "N", "T", " ", "g", "e", "t", "X", "(", ")", " ", "E",
      "N", "D", " ", "F", "N">>

\* "INT y"
LineIntY ==
    <<"I", "N", "T", " ", "y">>

\* "FN interest(n)"
LineInterest ==
    <<"F", "N", " ", "i", "n", "t", "e", "r", "e", "s", "t", "(", "n", ")">>

\* " b : BOOL, c: INT"
LineBody ==
    <<" ", "b", " ", ":", " ", "B", "O", "O", "L", ",", " ", "c", ":", " ", "I",
      "N", "T">>

\* "ABC def GHI"
LineCaps ==
    <<"A", "B", "C", " ", "d", "e", "f", " ", "G", "H", "I">>

\* "aBC XY1 Q ABC"
LineMixed ==
    <<"a", "B", "C", " ", "X", "Y", "1", " ", "Q", " ", "A", "B", "C">>

\* "Ab c"
LineLower ==
    <<"A", "b", " ", "c">>

\* "ZZ\tTOP"
LineTwo ==
    <<"Z", "Z", "\t", "T", "O", "P">>

\* " BOOL z"
LineBoolZ == <<" ", "B", "O", "O", "L", " ", "z">>

\* "\tEND FN "
LineEndFnPadded == <<"\t", "E", "N", "D", " ", "F", "N", " ">>

\* the lines a document of the extractors' specification is made of
FnLines ==
    {LineGreet, LineEndFn, LineFoo, LineIntX, LineGetX, LineIntY, LineInterest}

\* the lines a document of the validator's specification is made of
DiagLines == {LineCaps, LineMixed, LineLower, LineTwo}

\* the texts of the documents of the server's specification
ServerTexts == {LineFoo, LineEndFn}

\* the documents its editor opens; requests name every uri of URIs
EditorUris == {"u1"}

\* the most lines of a document of the extractors' specification
MaxLines == 3

\* the lines a document of the parameter lists' specification is made of
ParamLines ==
    {LineFoo, LineBody, LineEndFn, LineGreetHeader, LineBoolZ, LineEndFnPadded}

\* the most lines of a document of the parameter lists' specification
MaxParamLines == 4

\* the most lines of a document of the validator's specification
MaxDiagLines == 2

\* the settings objects a client delivers
ServerSettings == {[maxNumberOfProblems |-> 1], defaultSettings}

\* the values the client answers a workspace/configuration request with
ProviderSettings == ServerSettings \cup {NullSettings}

DiagSettings ==
    {[maxNumberOfProblems |-> 0], [maxNumberOfProblems |-> 1],
     [maxNumberOfProblems |-> 2], defaultSettings}

LineCount(text) == 1 + Cardinality({i \in 1..Len(text) : text[i] = "\n"})

\* the document of the extractors' and the validator's specifications
ScanUri == "u1"

\* the editor adds a line at the end of the document
AppendLine(uri, line, maxLines) ==
    /\ uri \in DOMAIN documents
    /\ LineCount(documents[uri]) < maxLines
    /\ DidChangeContent(uri, documents[uri] \o <<"\n">> \o line)

(***************************************************************************)
(* The server under every event of the protocol, on short documents.       *)
(***************************************************************************)
Next ==
    \/ \E c \in BOOLEAN, r \in BOOLEAN : Initialize(c, r)
    \/ \E u \in EditorUris, t \in ServerTexts : DidOpen(u, t)
    \/ \E u \in URIs, t \in ServerTexts : DidChangeContent(u, t)
    \/ \E u \in URIs : DidClose(u)
    \/ \E u \in URIs : DiagnosticsPull(u)
    \/ \E q \in RequestIds, s \in ProviderSettings : ConfigurationResponse(q, s)
    \/ \E s \in ServerSettings \cup {NoSettings} : DidChangeConfiguration(s)
    \/ \E u \in URIs : Completion(u, [line |-> 0, character |-> 0])

Spec == Init /\ [][Next]_vars

(***************************************************************************)
(* The extractors on documents of up to MaxLines lines: the server has     *)
(* been initialized by a client without the configuration capability and   *)
(* one document is open.                                                   *)
(***************************************************************************)
InitOpened(lines, related) ==
    /\ initialized = TRUE
    /\ hasConfigurationCapability = FALSE
    /\ hasDiagnosticRelatedInformationCapability \in related
    /\ documents \in {MapSet(EmptyMap, ScanUri, l) : l \in lines}
    /\ globalSettings = defaultSettings
    /\ documentSettings = EmptyMap
    /\ runs = <<>>
    /\ scanLocals = FreshLocals
    /\ response = NoResponse

InitFn == InitOpened(FnLines, {FALSE})

NextFn ==
    \/ \E l \in FnLines : AppendLine(ScanUri, l, MaxLines)
    \/ \E pos \in Positions : Completion(ScanUri, pos)

SpecFn == InitFn /\ [][NextFn]_vars

(***************************************************************************)
(* Two documents open side by side, with no configuration change: the      *)
(* events of one interleave with those of the other.                       *)
(***************************************************************************)
InitTwoDocs ==
    /\ initialized = TRUE
    /\ hasConfigurationCapability \in BOOLEAN
    /\ hasDiagnosticRelatedInformationCapability = FALSE
    /\ documents = EmptyMap
    /\ globalSettings = defaultSettings
    /\ documentSettings = EmptyMap
    /\ runs = <<>>
    /\ scanLocals = FreshLocals
    /\ response = NoResponse

NextTwoDocs ==
    \/ \E u \in URIs, t \in ServerTexts : DidOpen(u, t)
    \/ \E u \in URIs, t \in ServerTexts : DidChangeContent(u, t)
    \/ \E u \in URIs : DiagnosticsPull(u)
    \/ \E q \in RequestIds, s \in ProviderSettings : ConfigurationResponse(q, s)
    \/ \E u \in URIs : Completion(u, [line |-> 0, character |-> 0])

SpecTwoDocs == InitTwoDocs /\ [][NextTwoDocs]_vars

(***************************************************************************)
(* One open document, pulled and changed while the client changes the      *)
(* configuration and answers the lookups.                                  *)
(***************************************************************************)
InitSettings ==
    /\ initialized = TRUE
    /\ hasConfigurationCapability \in BOOLEAN
    /\ hasDiagnosticRelatedInformationCapability = FALSE
    /\ documents \in {MapSet(EmptyMap, ScanUri, t) : t \in ServerTexts}
    /\ globalSettings = defaultSettings
    /\ documentSettings = EmptyMap
    /\ runs = <<>>
    /\ scanLocals = FreshLocals
    /\ response = NoResponse

NextSettings ==
    \/ \E t \in ServerTexts : DidChangeContent(ScanUri, t)
    \/ DiagnosticsPull(ScanUri)
    \/ \E q \in RequestIds, s \in ProviderSettings : ConfigurationResponse(q, s)
    \/ \E s \in ServerSettings \cup {NoSettings} : DidChangeConfiguration(s)

SpecSettings == InitSettings /\ [][NextSettings]_vars

(***************************************************************************)
(* The function extractor on documents of up to MaxParamLines lines, of    *)
(* headers, body lines and END FN lines.                                   *)
(***************************************************************************)
InitParams == InitOpened(ParamLines, {FALSE})

NextParams ==
    \/ \E l \in ParamLines : AppendLine(ScanUri, l, MaxParamLines)
    \/ Completion(ScanUri, [line |-> 0, character |-> 0])

SpecParams == InitParams /\ [][NextParams]_vars

(***************************************************************************)
(* The validator on documents of up to MaxDiagLines lines, under every     *)
(* cap the client sets.                                                    *)
(***************************************************************************)
InitDiag == InitOpened(DiagLines, BOOLEAN)

NextDiag ==
    \/ \E l \in DiagLines : AppendLine(ScanUri, l, MaxDiagLines)
    \/ \E s \in DiagSettings : DidChangeConfiguration(s)
    \/ DiagnosticsPull(ScanUri)

SpecDiag == InitDiag /\ [][NextDiag]_vars

(***************************************************************************)
(* Properties. The notions they are stated in (an ALL-CAPS token, a         *)
(* function block, what precedes a match) are defined here on the text,     *)
(* apart from the scanners.                                                 *)
(***************************************************************************)
\* text[i..j] is an ALL-CAPS token: two or more uppercase letters with no
\* word character on either side
IsAllCapsToken(text, i, j) ==
    /\ 1 <= i
    /\ i < j
    /\ j <= Len(text)
    /\ \A k \in i..j : text[k] \in UpperChars
    /\ ~IsWordAt(text, i - 1)
    /\ ~IsWordAt(text, j + 1)

AllCapsSpans(text) ==
    {ij \in (1..Len(text)) \X (1..Len(text)) : IsAllCapsToken(text, ij[1], ij[2])}

DistinctAllCapsTokens(text) == {SubSeq(text, ij[1], ij[2]) : ij \in AllCapsSpans(text)}

\* the k-th span in text order
KthSpan(text, k) ==
    CHOOSE ij \in AllCapsSpans(text) :
        Cardinality({x \in AllCapsSpans(text) : x[1] < ij[1]}) = k - 1

Smaller(a, b) == IF a < b THEN a ELSE b

\* the last response is the report of a validation that ran
ReportOfScan == response.handler = "diagnostics" /\ response.settings # NoSettings

\* C1: the report of a document with k distinct ALL-CAPS tokens under
\* maxNumberOfProblems = m holds min(k, m) diagnostics
C1_CountIsMin ==
    ReportOfScan =>
        Len(response.items) =
            Smaller(Cardinality(DistinctAllCapsTokens(response.scanned)),
                    response.settings.maxNumberOfProblems)

\* C2: the report holds, in text order, one Warning for each of the first
\* ALL-CAPS matches up to the cap, spanning the match and saying
\* "<TOKEN> is all uppercase."; "ABC def GHI" under a cap of 1 gives the one
\* for "ABC"
C2_FirstMatchesReported ==
    ReportOfScan =>
        LET text == response.scanned
            n == Smaller(Cardinality(AllCapsSpans(text)),
                         response.settings.maxNumberOfProblems)
        IN  /\ Len(response.items) = n
            /\ \A k \in 1..n :
                  LET ij == KthSpan(text, k)
                  IN  /\ response.items[k].severity = Warning
                      /\ response.items[k].range =
                            [start |-> positionAt(text, ij[1] - 1),
                             end |-> positionAt(text, ij[2])]
                      /\ response.items[k].message =
                            SubSeq(text, ij[1], ij[2]) \o MsgAllUppercase

\* no two uppercase letters follow one another in text
NoUppercasePair(text) ==
    \A i \in 1..(Len(text) - 1) : ~(text[i] \in UpperChars /\ text[i + 1] \in UpperChars)

\* C7: the report of a document with no two consecutive uppercase letters is
\* empty, under every cap and either value of the related-information flag
C7_NoUppercasePairNoDiagnostics ==
    (ReportOfScan /\ NoUppercasePair(response.scanned)) => response.items = <<>>

\* C7 witness: a report sent for "Ab c" under a cap of 2 to a client with
\* related information
C7_Witness ==
    /\ ReportOfScan
    /\ response.scanned = LineLower
    /\ response.settings.maxNumberOfProblems = 2
    /\ hasDiagnosticRelatedInformationCapability

(***************************************************************************)
(* Properties of the extractors and of the completion result.              *)
(***************************************************************************)
\* the last response is the completion result of a known document, so that
\* scanLocals is what the scan of response.scanned left
CompletionOfScan == response.handler = "completion" /\ response.items # <<>>

\* the items of the last completion result that follow the fixed vocabulary
SymbolItems == SubSeq(response.items, Len(FixedItems) + 1, Len(response.items))

VariableItemsSent == SelectSeq(SymbolItems, LAMBDA it : it.kind = Variable)

\* the word FN stands at position i of text
FnWordAt(text, i) ==
    MatchLit(text, i, KwFN, FALSE) /\ ~IsWordAt(text, i - 1) /\ ~IsWordAt(text, i + 2)

\* the FN at position i is the one of an END FN
EndFnAt(text, i) ==
    /\ FnWordAt(text, i)
    /\ MatchLit(text, i - 4, <<"E", "N", "D", " ">>, FALSE)
    /\ ~IsWordAt(text, i - 5)

BlockHeaders(text) == {i \in 1..Len(text) : FnWordAt(text, i) /\ ~EndFnAt(text, i)}

BlockEnds(text) == {i \in 1..Len(text) : EndFnAt(text, i)}

\* the position where the identifier that ends just before position o starts
RECURSIVE IdentStartBefore(_, _)
IdentStartBefore(text, o) ==
    IF o > 1 /\ text[o - 1] \in IdentChars THEN IdentStartBefore(text, o - 1) ELSE o

\* text holds exactly one block FN NAME(...) ... END FN, in whatever layout:
\* one FN that opens a block, whitespace, an optional type, the name, the
\* parenthesised list, and one END FN after it
OneWellFormedBlock(text) ==
    /\ Cardinality(BlockHeaders(text)) = 1
    /\ Cardinality(BlockEnds(text)) = 1
    /\ LET h == SetMin(BlockHeaders(text))
           e == SetMin(BlockEnds(text))
           o == IndexOf(text, "(", h)
           c == IndexOf(text, ")", o)
           n == IdentStartBefore(text, o)
       IN  /\ o < c
           /\ c < e - 4
           /\ h + 2 < n
           /\ n < o
           /\ text[n] \in IdentStart
           /\ \A k \in (h + 2)..(n - 1) :
                 \/ text[k] \in WhiteSpace
                 \/ \E t \in DOMAIN FunctionTypes :
                       /\ MatchLit(text, h + 3, FunctionTypes[t], FALSE)
                       /\ k < h + 3 + Len(FunctionTypes[t])

\* the NAME of that block: the identifier before its "("
BlockName(text) ==
    LET o == IndexOf(text, "(", SetMin(BlockHeaders(text)))
    IN  SubSeq(text, IdentStartBefore(text, o), o - 1)

\* C3: the completion result of a document that holds exactly one
\* well-formed FN NAME(...) ... END FN block, in whatever line layout, has a
\* Function item labelled NAME
C3_OneBlockIsOffered ==
    (CompletionOfScan /\ OneWellFormedBlock(response.scanned)) =>
        \E k \in DOMAIN response.items :
            response.items[k] = [label |-> BlockName(response.scanned), kind |-> Function]

NameGreet == <<"g", "r", "e", "e", "t">>

GreetThenEndFn == LineGreet \o <<"\n">> \o LineEndFn

FooThenIntX == LineFoo \o <<"\n">> \o LineIntX

Front(seq) == SubSeq(seq, 1, Len(seq) - 1)

\* C5: when the document ends inside a function, that function is not among
\* the FunctionSymbols: they are those of the document closed by an "END FN"
\* line, less the last; the variables are those of the closed document; and
\* "FN foo(a) \n INT x" yields no FunctionSymbol and the one variable x: INT
C5_UnterminatedFunctionDropped ==
    CompletionOfScan =>
        LET closed == response.scanned \o <<"\n">> \o LineEndFn
        IN  /\ scanLocals.isInFunction =>
                  /\ scanLocals.functionDeclarations =
                        Front(extractFunctionDeclarations(closed))
                  /\ VariableItemsSent =
                        VariableItems(extractVariableDeclarations(closed))
            /\ response.scanned = FooThenIntX =>
                  /\ scanLocals.isInFunction
                  /\ scanLocals.functionDeclarations = <<>>
                  /\ response.items = FixedItems \o
                        <<[label |-> <<"x">>, kind |-> Variable, detail |-> KwINT]>>

\* C5 witness: "FN foo(a) \n INT x" has been scanned to its end, inside foo
C5_Witness ==
    CompletionOfScan /\ response.scanned = FooThenIntX /\ scanLocals.isInFunction

\* the text before position i of line is "FN" at a word boundary and then
\* whitespace, at least one
FnJustBefore(line, i) ==
    LET b == SetMax({0} \cup {k \in 1..(i - 1) : line[k] \notin WhiteSpace})
    IN  b >= 2 /\ b < i - 1 /\ FnWordAt(line, b - 1)

\* TYPE identifier, with the variable extractor's types, stands at position i
TypeIdentifierAt(line, i) ==
    \E t \in DOMAIN VariableTypes :
        LET e == i + Len(VariableTypes[t])
        IN  /\ MatchLit(line, i, VariableTypes[t], FALSE)
            /\ e <= Len(line)
            /\ line[e] \in WhiteSpace
            /\ RunEnd(line, e, WhiteSpace) <= Len(line)
            /\ line[RunEnd(line, e, WhiteSpace)] \in IdentStart

GetXThenIntY == LineGetX \o <<"\n">> \o LineIntY

\* C6: no variable is reported for a TYPE identifier that "FN " comes just
\* before; every other one is reported, or lies in a match that is; and
\* "FN INT getX() END FN" followed by "INT y" gives y: INT and no getX
C6_FunctionReturnTypeNotAVariable ==
    CompletionOfScan =>
        LET lines == Split(response.scanned, "\n")
            found == [k \in DOMAIN lines |-> VariableMatches(lines[k], 1)]
        IN  /\ \A k \in DOMAIN lines :
                  /\ \A j \in DOMAIN found[k] : ~FnJustBefore(lines[k], found[k][j].index)
                  /\ \A i \in 1..Len(lines[k]) :
                        (TypeIdentifierAt(lines[k], i) /\ ~FnJustBefore(lines[k], i)) =>
                            \E j \in DOMAIN found[k] :
                                found[k][j].index <= i /\ i < found[k][j].end
            /\ Len(VariableItemsSent) = Len(extractVariableDeclarations(response.scanned))
            /\ response.scanned = GetXThenIntY =>
                  VariableItemsSent =
                      <<[label |-> <<"y">>, kind |-> Variable, detail |-> KwINT]>>

\* C6 witness: "FN INT getX() END FN" and "INT y" have been scanned
C6_Witness == CompletionOfScan /\ response.scanned = GetXThenIntY

\* the labels of the fixed vocabulary: the keywords, the two boolean literal
\* tokens among them, and the builtin
VocabularyLabels ==
    <<<<"B", "E", "G", "I", "N">>, <<"E", "N", "D">>, <<"I", "F">>,
      <<"E", "L", "S", "E">>, <<"W", "H", "I", "L", "E">>, <<"F", "N">>,
      <<"S", "T", "R", "I", "N", "G">>, <<"C", "H", "A", "R">>, <<"I", "N", "T">>,
      <<"F", "L", "O", "A", "T">>, <<"B", "O", "O", "L">>,
      <<"\"", "T", "R", "U", "E", "\"">>, <<"\"", "F", "A", "L", "S", "E", "\"">>,
      <<"R", "E", "T", "U", "R", "N">>,
      <<"s", "c", "a", "n", "S", "t", "r", "i", "n", "g">>>>

\* C10: the completion result of a known document is the fixed vocabulary,
\* then a Variable item with its type as detail for each VariableSymbol, in
\* extraction order, then a Function item for each FunctionSymbol, in
\* extraction order, whatever the position asked for
C10_VocabularyVariablesFunctions ==
    (response.handler = "completion" /\ response.uri \in DOMAIN documents) =>
        LET v == extractVariableDeclarations(response.scanned)
            f == extractFunctionDeclarations(response.scanned)
            n == Len(VocabularyLabels)
        IN  /\ Len(response.items) = n + Len(v) + Len(f)
            /\ \A k \in 1..n :
                  response.items[k] =
                      [label |-> VocabularyLabels[k],
                       kind |-> IF k = n THEN Function ELSE Keyword]
            /\ \A k \in 1..Len(v) :
                  response.items[n + k] =
                      [label |-> v[k].name, kind |-> Variable,
                       detail |-> v[k].containerName]
            /\ \A k \in 1..Len(f) :
                  response.items[n + Len(v) + k] =
                      [label |-> f[k].name, kind |-> Function]

FooIntXEndFn == FooThenIntX \o <<"\n">> \o LineEndFn

\* C10 witness: a result that holds the vocabulary, the variable x and the
\* function foo
C10_Witness ==
    /\ response.handler = "completion"
    /\ response.scanned = FooIntXEndFn
    /\ Len(response.items) = Len(VocabularyLabels) + 2

\* label stands somewhere in text
Occurs(label, text) ==
    \E i \in 1..(Len(text) - Len(label) + 1) : MatchLit(text, i, label, FALSE)

C9_UnknownDocumentPull ==
    [][\A u \in URIs :
          (u \notin DOMAIN documents /\ DiagnosticsPull(u)) =>
              /\ response' = [handler |-> "diagnostics", uri |-> u, kind |-> "full",
                              items |-> <<>>, scanned |-> <<>>,
                              settings |-> NoSettings]
              /\ documentSettings' = documentSettings
              /\ runs' = runs]_vars

\* C9 witness: the answer to a pull for "u2", which was never opened, while
\* the cache holds the settings of another document
C9_Witness ==
    /\ response.handler = "diagnostics"
    /\ response.uri = "u2"
    /\ response.items = <<>>
    /\ "u2" \notin DOMAIN documents
    /\ documentSettings # EmptyMap

\* the matches of the variable pattern in text, line after line
RECURSIVE MatchesOfLines(_, _)
MatchesOfLines(lines, k) ==
    IF k > Len(lines) THEN <<>>
    ELSE VariableMatches(lines[k], 1) \o MatchesOfLines(lines, k + 1)

VariableMatchesOf(text) == MatchesOfLines(Split(text, "\n"), 1)

\* how many elements of seq satisfy Test
CountOf(seq, Test(_)) == Cardinality({k \in DOMAIN seq : Test(seq[k])})

IntXTwice == LineIntX \o <<"\n">> \o LineIntX

\* C11: the Variable items of a completion result are as many as the matches
\* of the variable pattern in the text, and each declaration TYPE name has
\* as many items as it has matches: "INT x" on two lines gives two items x
C11_DuplicatesKept ==
    CompletionOfScan =>
        LET ms == VariableMatchesOf(response.scanned)
            sent == SelectSeq(response.items, LAMBDA it : it.kind = Variable)
        IN  /\ Len(sent) = Len(ms)
            /\ \A j \in DOMAIN ms :
                  CountOf(sent, LAMBDA it : it.label = ms[j].name
                                            /\ it.detail = ms[j].type)
                  = CountOf(ms, LAMBDA m : m.name = ms[j].name /\ m.type = ms[j].type)
            /\ response.scanned = IntXTwice =>
                  sent = <<[label |-> <<"x">>, kind |-> Variable, detail |-> KwINT],
                           [label |-> <<"x">>, kind |-> Variable, detail |-> KwINT]>>

\* C11 witness: the completion result of the document that declares x twice
C11_Witness ==
    /\ CompletionOfScan
    /\ response.scanned = IntXTwice
    /\ Len(response.items) = Len(FixedItems) + 2

\* C12: no scan raises to the host: whatever the text and whatever settings
\* value the configuration provider delivered, what the host is handed is a
\* result, never an error
C12_NoScanRaises == response.handler # "raised"

(***************************************************************************)
(* Properties of the function extractor, line by line.                     *)
(***************************************************************************)
\* the lines of the text the last completion request scanned
ScannedLines == Split(response.scanned, "\n")

\* the extractor's locals before the first line and after each line of
\* lines, from the locals st on: element n + 1 is the locals after n lines
RECURSIVE LocalsTrace(_, _, _)
LocalsTrace(st, lines, k) ==
    IF k > Len(lines) THEN <<st>>
    ELSE <<st>> \o LocalsTrace(FunctionScanLine(st, lines[k]), lines, k + 1)

\* a token identifier : TYPE starts at position i of line: the identifier
\* is a whole word from its start, and spaces may stand around the colon
TokenAt(line, i) ==
    LET r == RunEnd(line, i, IdentChars)
        c == RunEnd(line, r, WhiteSpace)
        d == RunEnd(line, c + 1, WhiteSpace)
        ts == {t \in DOMAIN FunctionTypes : MatchLit(line, d, FunctionTypes[t], FALSE)}
    IN  IF /\ i <= Len(line)
           /\ line[i] \in IdentStart
           /\ ~IsWordAt(line, i - 1)
           /\ c <= Len(line)
           /\ line[c] = ":"
           /\ ts # {}
        THEN [ok |-> TRUE, name |-> SubSeq(line, i, r - 1),
              type |-> FunctionTypes[SetMin(ts)]]
        ELSE [ok |-> FALSE, name |-> <<>>, type |-> <<>>]

\* the entries "TYPE name" of the tokens of line, in the order they stand
BodyEntries(line) ==
    LET at == SelectSeq([i \in 1..Len(line) |-> i], LAMBDA i : TokenAt(line, i).ok)
    IN  [k \in 1..Len(at) |->
            TokenAt(line, at[k]).type \o <<" ">> \o TokenAt(line, at[k]).name]

IsEndFnLine(line) ==
    LET keep == {i \in 1..Len(line) : line[i] \notin WhiteSpace}
    IN  /\ keep # {}
        /\ SetMax(keep) - SetMin(keep) = 5
        /\ MatchLit(line, SetMin(keep), <<"E", "N", "D", " ", "F", "N">>, FALSE)

FooBodyEndFn == LineFoo \o <<"\n">> \o LineBody \o <<"\n">> \o LineEndFn

\* C13: no Variable item has the type BOOL, and a line "BOOL z" gives no
\* variable; a token x : BOOL on a line inside a function is added to its
\* parameters as "BOOL x": "FN foo(a) ", " b : BOOL, c: INT", "END FN" gives
\* foo with the parameters a, "BOOL b", "INT c" and no variable
C13_BoolParameterNotVariable ==
    CompletionOfScan =>
        /\ \A k \in DOMAIN VariableItemsSent : VariableItemsSent[k].detail # KwBOOL
        /\ LET lines == ScannedLines
               locals == LocalsTrace(FreshLocals, lines, 1)
           IN  \A n \in DOMAIN lines :
                  /\ lines[n] = LineBoolZ => VariableMatches(lines[n], 1) = <<>>
                  /\ (locals[n].isInFunction /\ ~IsEndFnLine(lines[n])) =>
                        \A i \in 1..Len(lines[n]) :
                            LET tok == TokenAt(lines[n], i)
                            IN  (tok.ok /\ tok.type = KwBOOL) =>
                                    \E j \in DOMAIN locals[n + 1].functionParams :
                                        locals[n + 1].functionParams[j]
                                            = KwBOOL \o <<" ">> \o tok.name
        /\ response.scanned = LineBoolZ => response.items = FixedItems
        /\ response.scanned = FooBodyEndFn =>
              /\ response.items = FixedItems \o <<[label |-> <<"f", "o", "o">>,
                                                   kind |-> Function]>>
              /\ scanLocals.functionDeclarations =
                    <<[name |-> <<"f", "o", "o">>,
                       params |-> <<<<"a">>, KwBOOL \o <<" ", "b">>,
                                    KwINT \o <<" ", "c">>>>]>>

\* C13 witness: the function foo with the body line " b : BOOL, c: INT",
\* closed, and a line " BOOL z" after it
C13_Witness ==
    /\ CompletionOfScan
    /\ response.scanned = FooBodyEndFn \o <<"\n">> \o LineBoolZ
    /\ Len(scanLocals.functionDeclarations) = 1
    /\ VariableItemsSent = <<>>

\* the text of line between its first "(" and its last ")"
ParenText(line) ==
    LET o == SetMin({i \in 1..Len(line) : line[i] = "("})
        c == SetMax({i \in 1..Len(line) : line[i] = ")"})
    IN  SubSeq(line, o + 1, c - 1)

\* text cut at its commas, each piece without the whitespace around it
CommaTokens(text) ==
    LET commas == {i \in 1..Len(text) : text[i] = ","}
        cuts == commas \cup {0, Len(text) + 1}
        from == SelectSeq([i \in 1..(Len(text) + 1) |-> i - 1], LAMBDA i : i \in cuts)
        Piece(a) ==
            LET b == SetMin({j \in cuts : j > a})
                keep == {j \in (a + 1)..(b - 1) : text[j] \notin WhiteSpace}
            IN  IF keep = {} THEN <<>> ELSE SubSeq(text, SetMin(keep), SetMax(keep))
    IN  [k \in 1..Len(from) |-> Piece(from[k])]

GreetBodyEndFn == LineGreetHeader \o <<"\n">> \o LineBody \o <<"\n">> \o LineEndFn

\* C14: a header gives the parameter list its parenthesised text cut at the
\* commas and trimmed; each line after it that is no END FN line adds the
\* "TYPE name" entries of its tokens identifier : TYPE at the end, in order;
\* the END FN line emits the list as it is
C14_HeaderThenBodyParams ==
    CompletionOfScan =>
        /\ LET lines == ScannedLines
               locals == LocalsTrace(FreshLocals, lines, 1)
           IN  /\ \A n \in DOMAIN lines :
                      LET line == lines[n]
                          before == locals[n]
                          after == locals[n + 1]
                      IN  /\ (~before.isInFunction /\ after.isInFunction) =>
                                after.functionParams = CommaTokens(ParenText(line))
                          /\ (before.isInFunction /\ ~IsEndFnLine(line)) =>
                                /\ after.isInFunction
                                /\ after.functionParams =
                                      before.functionParams \o BodyEntries(line)
                          /\ (before.isInFunction /\ IsEndFnLine(line)) =>
                                after.functionDeclarations =
                                    Append(before.functionDeclarations,
                                           [name |-> before.functionName,
                                            params |-> before.functionParams])
               /\ scanLocals = locals[Len(lines) + 1]
        /\ response.scanned = GreetBodyEndFn =>
              scanLocals.functionDeclarations =
                  <<[name |-> NameGreet,
                     params |-> <<<<"n", "a", "m", "e", ":", " ">> \o KwSTRING,
                                  KwBOOL \o <<" ", "b">>, KwINT \o <<" ", "c">>>>]>>

\* C14 witness: greet with one header parameter and a body line of two tokens
C14_Witness ==
    /\ CompletionOfScan
    /\ response.scanned = GreetBodyEndFn
    /\ Len(scanLocals.functionDeclarations[1].params) = 3

\* the header pattern read at the FN at position i of line: the keyword FN,
\* whitespace, a return-type keyword and whitespace or neither, an
\* identifier, and a parenthesised list; name is the identifier
HeaderReadAt(line, i) ==
    LET p == RunEnd(line, i + 2, WhiteSpace)
        ts == {t \in DOMAIN FunctionTypes :
                  /\ MatchLit(line, p, FunctionTypes[t], FALSE)
                  /\ RunEnd(line, p + Len(FunctionTypes[t]), WhiteSpace)
                        > p + Len(FunctionTypes[t])
                  /\ IsWordAt(line, RunEnd(line, p + Len(FunctionTypes[t]), WhiteSpace))}
        q == IF ts = {} THEN p
             ELSE RunEnd(line, p + Len(FunctionTypes[SetMin(ts)]), WhiteSpace)
        r == RunEnd(line, q, IdentChars)
        o == RunEnd(line, r, WhiteSpace)
    IN  IF /\ FnWordAt(line, i)
           /\ p > i + 2
           /\ q <= Len(line)
           /\ line[q] \in IdentStart
           /\ o <= Len(line)
           /\ line[o] = "("
           /\ \E c \in (o + 1)..Len(line) : line[c] = ")"
        THEN [ok |-> TRUE, name |-> SubSeq(line, q, r - 1)]
        ELSE [ok |-> FALSE, name |-> <<>>]

IsHeaderLine(line) == \E i \in 1..Len(line) : HeaderReadAt(line, i).ok

HeaderName(line) ==
    HeaderReadAt(line, SetMin({i \in 1..Len(line) : HeaderReadAt(line, i).ok})).name

\* C15: outside a function, a line opens one exactly when it has the header
\* pattern: FN, a return-type keyword or none, an identifier, a parenthesised
\* list; the name recorded is that identifier, and any other line leaves the
\* locals as they are
C15_HeaderOpensFunction ==
    CompletionOfScan =>
        LET lines == ScannedLines
            locals == LocalsTrace(FreshLocals, lines, 1)
        IN  \A n \in DOMAIN lines :
                LET line == lines[n]
                    before == locals[n]
                    after == locals[n + 1]
                IN  ~before.isInFunction =>
                        /\ after.isInFunction <=> IsHeaderLine(line)
                        /\ IsHeaderLine(line) => after.functionName = HeaderName(line)
                        /\ ~IsHeaderLine(line) => after = before

NameFoo == <<"f", "o", "o">>

FooGreetEndFn == LineFoo \o <<"\n">> \o LineGreetHeader \o <<"\n">> \o LineEndFn

FooEndFnGreetEndFn ==
    LineFoo \o <<"\n">> \o LineEndFn \o <<"\n">> \o LineGreetHeader \o <<"\n">> \o LineEndFn

\* C20: the FunctionSymbols are one for each END FN line met inside a
\* function, in order; such a line emits the name and parameters gathered
\* and empties them; any other line inside a function leaves the name and
\* the symbols as they are, a header-shaped one too; no line outside a
\* function emits; and a function opened later starts from its own header's
\* parameters
C20_OneSymbolPerEndFn ==
    CompletionOfScan =>
        /\ LET lines == ScannedLines
               locals == LocalsTrace(FreshLocals, lines, 1)
           IN  /\ \A n \in DOMAIN lines :
                      LET line == lines[n]
                          before == locals[n]
                          after == locals[n + 1]
                      IN  /\ (before.isInFunction /\ IsEndFnLine(line)) =>
                                /\ after.functionDeclarations =
                                      Append(before.functionDeclarations,
                                             [name |-> before.functionName,
                                              params |-> before.functionParams])
                                /\ after.functionName = <<>>
                                /\ after.functionParams = <<>>
                                /\ ~after.isInFunction
                          /\ (before.isInFunction /\ ~IsEndFnLine(line)) =>
                                /\ after.functionDeclarations =
                                      before.functionDeclarations
                                /\ after.functionName = before.functionName
                                /\ after.isInFunction
                          /\ ~before.isInFunction =>
                                /\ after.functionDeclarations =
                                      before.functionDeclarations
                                /\ after.isInFunction =>
                                      after.functionParams =
                                          CommaTokens(ParenText(line))
               /\ Len(scanLocals.functionDeclarations) =
                      Cardinality({n \in DOMAIN lines :
                                      locals[n].isInFunction /\ IsEndFnLine(lines[n])})
        /\ response.scanned = FooGreetEndFn =>
              scanLocals.functionDeclarations =
                  <<[name |-> NameFoo,
                     params |-> <<<<"a">>, KwSTRING \o <<" ", "n", "a", "m", "e">>>>]>>
        /\ response.scanned = FooEndFnGreetEndFn =>
              scanLocals.functionDeclarations =
                  <<[name |-> NameFoo, params |-> <<<<"a">>>>],
                    [name |-> NameGreet,
                     params |-> <<<<"n", "a", "m", "e", ":", " ">> \o KwSTRING>>]>>

\* C20 witness: two functions, each closed by its END FN line
C20_Witness ==
    /\ CompletionOfScan
    /\ response.scanned = FooEndFnGreetEndFn
    /\ Len(scanLocals.functionDeclarations) = 2

(***************************************************************************)
(* Properties of the server's runs.                                        *)
(***************************************************************************)
\* C16: a diagnostics run scans under the one settings value its lookup
\* resolved to: the answer to its workspace/configuration request, the
\* settled value of the cache, or globalSettings for a client without the
\* capability; and no configuration change changes the result of a run that
\* has scanned
C16_CapIsWhatLookupResolved ==
    [][/\ \A q \in RequestIds, s \in ProviderSettings :
             (/\ \E k \in DOMAIN runs : runs[k].request = q /\ runs[k].pull
              /\ \A k \in DOMAIN runs' : runs'[k].request # q
              /\ ConfigurationResponse(q, s)) =>
                 /\ response'.handler \in {"diagnostics", "raised"}
                 /\ response'.settings = s
       /\ \A u \in URIs :
             (/\ u \in DOMAIN documents
              /\ (hasConfigurationCapability =>
                     (u \in DOMAIN documentSettings /\ documentSettings[u].settled))
              /\ runs' = runs
              /\ DiagnosticsPull(u)) =>
                 /\ response'.handler \in {"diagnostics", "raised"}
                 /\ response'.uri = u
                 /\ response'.settings =
                       IF hasConfigurationCapability
                       THEN documentSettings[u].settings ELSE globalSettings
       /\ response' # response =>
             \A s \in ServerSettings \cup {NoSettings} : ~DidChangeConfiguration(s)]_vars

\* C16 witness: the report of a run whose lookup resolved to the cap 1, kept
\* after a configuration change has cleared the cache
C16_Witness ==
    /\ response.handler = "diagnostics"
    /\ hasConfigurationCapability
    /\ response.settings = [maxNumberOfProblems |-> 1]
    /\ response.uri \in DOMAIN documents
    /\ documentSettings = EmptyMap
    /\ runs = <<>>

\* C17: a content change that arrives while a validation is suspended on
\* its settings lookup does not change the text that validation scans when
\* it goes on
C17_SuspendedRunKeepsItsText ==
    [][\A u \in URIs, t \in ServerTexts :
          DidChangeContent(u, t) =>
              \A k \in DOMAIN runs :
                  RunText(runs'[k], documents') = RunText(runs[k], documents)]_vars

\* what validateTextDocument hands the diagnostics handler for the document
\* uri holding text under settings, run by itself
ValidationAlone(uri, text, settings) ==
    IF ValidateRaises(text, settings)
    THEN [handler |-> "raised", uri |-> uri, from |-> "diagnostics",
          scanned |-> text, settings |-> settings]
    ELSE [handler |-> "diagnostics", uri |-> uri, kind |-> "full",
          items |-> validateTextDocument(text, uri, settings,
                        hasDiagnosticRelatedInformationCapability),
          scanned |-> text, settings |-> settings]

\* what onCompletion returns for the document uri holding text, run by itself
CompletionAlone(uri, text) ==
    [handler |-> "completion", uri |-> uri,
     items |-> FixedItems
               \o VariableItems(extractVariableDeclarations(text))
               \o FunctionItems(FunctionScanLines(FreshLocals, Split(text, "\n"), 1)
                                    .functionDeclarations),
     scanned |-> text]

\* C18: with two documents open and their events interleaved, each result
\* is the one its run gives by itself on its own document: a completion
\* result that of a scan of its document from fresh locals, a diagnostics
\* result that of the validation of its document under the settings its
\* lookup resolved to
C18_RunsDoNotInterfere ==
    [][\A u \in DOMAIN documents :
          /\ Completion(u, [line |-> 0, character |-> 0]) =>
                response' = CompletionAlone(u, documents[u])
          /\ (/\ DiagnosticsPull(u)
              /\ (hasConfigurationCapability =>
                     (u \in DOMAIN documentSettings /\ documentSettings[u].settled))) =>
                response' = ValidationAlone(u, documents[u],
                                IF hasConfigurationCapability
                                THEN documentSettings[u].settings ELSE globalSettings)
          /\ \A q \in RequestIds, s \in ProviderSettings :
                (/\ ConfigurationResponse(q, s)
                 /\ \E k \in DOMAIN runs : runs[k].request = q /\ runs[k].uri = u) =>
                    LET alone == ValidationAlone(u, documents[u], s)
                        pulled == \E k \in DOMAIN runs :
                                      runs[k].request = q /\ runs[k].pull
                    IN  /\ \A k \in DOMAIN runs : runs[k].request = q => runs[k].uri = u
                        /\ \A k \in DOMAIN runs' : runs'[k].request # q
                        /\ IF alone.handler = "raised"
                           THEN response' \in
                                    {alone, [alone EXCEPT !.from = "onDidChangeContent"]}
                           ELSE IF pulled THEN response' = alone
                           ELSE response' = response]_vars

\* C18 witness: the completion result of one document while a validation of
\* the other, which holds another text, is suspended
C18_Witness ==
    /\ response.handler = "completion"
    /\ response.uri = "u2"
    /\ DOMAIN documents = {"u1", "u2"}
    /\ documents["u1"] # documents["u2"]
    /\ response.scanned = documents["u2"]
    /\ runs # <<>>
    /\ runs[1].uri = "u1"

\* C19: the settings cache holds entries for open documents only, and none
\* for a client without the configuration capability; a step adds at most
\* the entry of the document whose validation it starts, a close drops the
\* closed document's entry, and a configuration change of a client with the
\* capability leaves the cache empty
C19_CacheKeysAreOpenDocuments ==
    /\ [](/\ DOMAIN documentSettings \subseteq DOMAIN documents
          /\ ~hasConfigurationCapability => documentSettings = EmptyMap)
    /\ [][/\ \A u \in DOMAIN documentSettings' \ DOMAIN documentSettings :
                /\ u \in DOMAIN documents'
                /\ \E k \in DOMAIN runs' : runs'[k].uri = u /\ ~runs'[k].closed
                /\ \/ \E t \in ServerTexts : DidOpen(u, t) \/ DidChangeContent(u, t)
                   \/ DiagnosticsPull(u)
          /\ \A u \in URIs : DidClose(u) => u \notin DOMAIN documentSettings'
          /\ \A s \in ServerSettings \cup {NoSettings} :
                (DidChangeConfiguration(s) /\ hasConfigurationCapability) =>
                    documentSettings' = EmptyMap]_vars

\* C19 witness: the document was closed while its validation awaited the
\* settings its entry in the cache stood for, and the entry is gone
C19_Witness ==
    /\ hasConfigurationCapability
    /\ documents = EmptyMap
    /\ documentSettings = EmptyMap
    /\ runs # <<>>
    /\ runs[1].closed

====
